---- MODULE Spec2Model ----
(***************************************************************************)
(* Model of ceph-bench/main.py: the command-line entry point (main), the   *)
(* benchmark run (run_benchmark under the zaza_cleanup decorator), the     *)
(* parser dispatcher (get_parser) with its three parsers, the numeric line *)
(* extractor (extract_nums) and the reporter (print_results).              *)
(*                                                                         *)
(* Representation.                                                         *)
(*  - A Python number n is the integer 10*n (tenths), so 12.5 is 125 and   *)
(*    the integer 7 is 70.  Only non-negative numbers occur.               *)
(*  - A text line is the sequence of its whitespace-separated tokens, i.e. *)
(*    line.split(); a marker (which has no whitespace in it) is a          *)
(*    substring of the line iff it is a substring of one of the tokens.    *)
(*  - A dict with a fixed set of possible keys is a record of options: a   *)
(*    field is <<>> when the key is absent and <<v>> when it maps to v.    *)
(*  - A raised exception is a record [type, arg]; NoExc means none.        *)
(***************************************************************************)
EXTENDS Integers, Sequences, FiniteSets

\* ---------------------------------------------------------------- bounds
MaxLines == 2
MaxJobs == 2

\* ------------------------------------------------------------ exceptions
NoExc == [type |-> "none", arg |-> ""]

Raise(type, arg) == [type |-> type, arg |-> arg]

\* ---------------------------------------------------------------- tokens
Markers == {"read_ops", "write_ops", "elapsed"}

\* The tokens report lines are built from.
Tokens == {"read_ops:", "write_ops:", "elapsed:", "iops:", "bw:", "rbd",
           "7", "0", "2.5"}

\* marker in tok  (Python substring test on one token)
TokContains(tok, marker) ==
    CASE tok = "read_ops:" -> marker = "read_ops"
      [] tok = "write_ops:" -> marker = "write_ops"
      [] tok = "elapsed:" -> marker = "elapsed"
      [] OTHER -> FALSE

\* marker in line
Contains(line, marker) == \E i \in 1..Len(line) : TokContains(line[i], marker)

\* int(tok): ValueError unless tok is a decimal integer literal.
IntOf(tok) ==
    CASE tok = "7" -> [err |-> NoExc, val |-> 70]
      [] tok = "0" -> [err |-> NoExc, val |-> 0]
      [] OTHER -> [err |-> Raise("ValueError", "int"), val |-> 0]

\* float(tok): ValueError unless tok is a number literal.
FloatOf(tok) ==
    CASE tok = "7" -> [err |-> NoExc, val |-> 70]
      [] tok = "0" -> [err |-> NoExc, val |-> 0]
      [] tok = "2.5" -> [err |-> NoExc, val |-> 25]
      [] OTHER -> [err |-> Raise("ValueError", "float"), val |-> 0]

\* extract_nums(line): (int(line[1]), float(line[3]), float(line[5])), the
\* tuple's elements evaluated left to right (Python indices are 0-based).
extract_nums(line) ==
    IF Len(line) < 2 THEN [err |-> Raise("IndexError", "list index out of range"), val |-> <<0, 0, 0>>]
    ELSE IF IntOf(line[2]).err # NoExc THEN [err |-> IntOf(line[2]).err, val |-> <<0, 0, 0>>]
    ELSE IF Len(line) < 4 THEN [err |-> Raise("IndexError", "list index out of range"), val |-> <<0, 0, 0>>]
    ELSE IF FloatOf(line[4]).err # NoExc THEN [err |-> FloatOf(line[4]).err, val |-> <<0, 0, 0>>]
    ELSE IF Len(line) < 6 THEN [err |-> Raise("IndexError", "list index out of range"), val |-> <<0, 0, 0>>]
    ELSE IF FloatOf(line[6]).err # NoExc THEN [err |-> FloatOf(line[6]).err, val |-> <<0, 0, 0>>]
    ELSE [err |-> NoExc,
          val |-> <<IntOf(line[2]).val, FloatOf(line[4]).val, FloatOf(line[6]).val>>]

\* ------------------------------------------- normalized result record
\* The dict a parser returns: keys 'elapsed', 'read', 'write', each optional.
EmptyRecord == [elapsed |-> <<>>, read |-> <<>>, write |-> <<>>]

Has(d, key) == d[key] # <<>>

Get(d, key) == d[key][1]

\* ---------------------------------------------------- structured reports
\* A job's 'read' / 'write' entry: a dict with keys total_ios, iops, bw.
EmptyOps == [total_ios |-> <<>>, iops |-> <<>>, bw |-> <<>>]

FullOps == [total_ios |-> <<5000>>, iops |-> <<400>>, bw |-> <<20000>>]

PartialOps == [total_ios |-> <<5000>>, iops |-> <<400>>, bw |-> <<>>]

OpsEntries == {EmptyOps, FullOps, PartialOps}

Opt(S) == {<<>>} \cup {<<x>> : x \in S}

\* The per-job records of a structured report.
Jobs == [elapsed : Opt({125}), read : Opt(OpsEntries), write : Opt(OpsEntries)]

SeqsUpTo(S, n) == UNION {[1..k -> S] : k \in 0..n}

\* The values ast.literal_eval yields on a structured report: a dict with
\* or without the key 'jobs', which maps to a list of job records.
Tabs == [jobs : Opt(SeqsUpTo(Jobs, MaxJobs))]

NoTab == [jobs |-> <<>>]

\* bool(ops) for ops = jobs.get(key): None and the empty dict are falsy.
Truthy(ops) == ops # EmptyOps

\* ---------------------------------------------------------- text reports
LineCatalog ==
    { <<"read_ops:", "7", "iops:", "2.5", "bw:", "7">>,
      <<"read_ops:", "0", "iops:", "7", "bw:", "2.5">>,
      <<"write_ops:", "7", "iops:", "2.5", "bw:", "0">>,
      <<"elapsed:", "7", "iops:", "7", "bw:", "7">>,
      <<"elapsed:", "0", "iops:", "7", "bw:", "7">>,
      <<"read_ops:", "7", "write_ops:", "2.5", "elapsed:", "0">>,
      <<"write_ops:", "0", "elapsed:", "7", "bw:", "7">>,
      <<"rbd", "7">>,
      <<"write_ops:", "7">>,
      <<"elapsed:", "2.5", "iops:", "7", "bw:", "7">>,
      <<>> }

\* msg.split('\n') is never empty: the empty string gives one empty line.
TextReports == UNION {[1..k -> LineCatalog] : k \in 1..MaxLines}

\* The 'test-results' payload of an action result, a string: either a text
\* report (its lines) or a structured report (the value it evaluates to).
TextPayload(lines) == [kind |-> "text", lines |-> lines, tab |-> NoTab]

StructPayload(tab) == [kind |-> "struct", lines |-> <<>>, tab |-> tab]

\* -------------------------------------------------------------- parsers
\* extract_fio_info reading the entry of the other direction.
extract_fio_info_swapped(jobs, key, out) ==
    LET other == IF key = "read" THEN "write" ELSE "read"
        ops == IF Has(jobs, other) THEN Get(jobs, other) ELSE EmptyOps
    IN  IF ~Truthy(ops) THEN [err |-> NoExc, out |-> out]
        ELSE IF ~Has(ops, "total_ios") THEN [err |-> Raise("KeyError", "total_ios"), out |-> out]
        ELSE IF ~Has(ops, "iops") THEN [err |-> Raise("KeyError", "iops"), out |-> out]
        ELSE IF ~Has(ops, "bw") THEN [err |-> Raise("KeyError", "bw"), out |-> out]
        ELSE [err |-> NoExc,
              out |-> [out EXCEPT ![key] =
                          << <<Get(ops, "total_ios"), Get(ops, "iops"), Get(ops, "bw")>> >>]]

\* extract_fio_info(jobs, key, out): out with out[key] set to the triple
\* (total_ios, iops, bw) of jobs[key] when that entry is truthy.
extract_fio_info(jobs, key, out) ==
    LET ops == IF Has(jobs, key) THEN Get(jobs, key) ELSE EmptyOps
    IN  IF ~Truthy(ops) THEN [err |-> NoExc, out |-> out]
        ELSE IF ~Has(ops, "total_ios") THEN [err |-> Raise("KeyError", "total_ios"), out |-> out]
        ELSE IF ~Has(ops, "iops") THEN [err |-> Raise("KeyError", "iops"), out |-> out]
        ELSE IF ~Has(ops, "bw") THEN [err |-> Raise("KeyError", "bw"), out |-> out]
        ELSE [err |-> NoExc,
              out |-> [out EXCEPT ![key] =
                          << <<Get(ops, "total_ios"), Get(ops, "iops"), Get(ops, "bw")>> >>]]

\* ast.literal_eval(msg): a text report of the catalog is no Python literal.
literal_eval(msg) ==
    IF msg.kind = "struct" THEN [err |-> NoExc, val |-> msg.tab]
    ELSE [err |-> Raise("SyntaxError", "invalid syntax"), val |-> NoTab]

\* parse_fio(msg)
parse_fio(msg) ==
    LET tab == literal_eval(msg)
    IN  IF tab.err # NoExc THEN [err |-> tab.err, ret |-> EmptyRecord]
        ELSE IF ~Has(tab.val, "jobs") THEN [err |-> Raise("KeyError", "jobs"), ret |-> EmptyRecord]
        ELSE IF Len(Get(tab.val, "jobs")) = 0
             THEN [err |-> Raise("IndexError", "list index out of range"), ret |-> EmptyRecord]
        ELSE LET jobs == Get(tab.val, "jobs")[1]
             IN  IF ~Has(jobs, "elapsed") THEN [err |-> Raise("KeyError", "elapsed"), ret |-> EmptyRecord]
                 ELSE LET ret0 == [EmptyRecord EXCEPT !.elapsed = <<Get(jobs, "elapsed")>>]
                          r1 == extract_fio_info(jobs, "read", ret0)
                          r2 == extract_fio_info(jobs, "write", r1.out)
                      IN  IF r1.err # NoExc THEN [err |-> r1.err, ret |-> EmptyRecord]
                          ELSE IF r2.err # NoExc THEN [err |-> r2.err, ret |-> EmptyRecord]
                          ELSE [err |-> NoExc, ret |-> r2.out]

\* One iteration of parse_rbd_bench's loop with independent tests instead of
\* the if / elif chain.
rbd_line_no_elif(ret, line) ==
    LET nums == extract_nums(line)
        marked == \E m \in Markers : Contains(line, m)
    IN  IF marked /\ nums.err # NoExc THEN [err |-> nums.err, ret |-> ret]
        ELSE [err |-> NoExc,
              ret |-> [elapsed |-> IF Contains(line, "elapsed") THEN <<nums.val[1]>> ELSE ret.elapsed,
                       read |-> IF Contains(line, "read_ops") THEN <<nums.val>> ELSE ret.read,
                       write |-> IF Contains(line, "write_ops") THEN <<nums.val>> ELSE ret.write]]

\* One iteration of parse_rbd_bench's loop that keeps a field already set.
rbd_line_first_wins(ret, line) ==
    LET nums == extract_nums(line)
    IN  IF Contains(line, "read_ops")
        THEN IF nums.err # NoExc THEN [err |-> nums.err, ret |-> ret]
             ELSE [err |-> NoExc,
                   ret |-> IF Has(ret, "read") THEN ret ELSE [ret EXCEPT !.read = <<nums.val>>]]
        ELSE IF Contains(line, "write_ops")
        THEN IF nums.err # NoExc THEN [err |-> nums.err, ret |-> ret]
             ELSE [err |-> NoExc,
                   ret |-> IF Has(ret, "write") THEN ret ELSE [ret EXCEPT !.write = <<nums.val>>]]
        ELSE IF Contains(line, "elapsed")
        THEN IF nums.err # NoExc THEN [err |-> nums.err, ret |-> ret]
             ELSE [err |-> NoExc,
                   ret |-> IF Has(ret, "elapsed") THEN ret
                           ELSE [ret EXCEPT !.elapsed = <<nums.val[1]>>]]
        ELSE [err |-> NoExc, ret |-> ret]

\* One iteration of parse_rbd_bench's loop: the if / elif chain on one line.
rbd_line(ret, line) ==
    LET nums == extract_nums(line)
    IN  IF Contains(line, "read_ops")
        THEN IF nums.err # NoExc THEN [err |-> nums.err, ret |-> ret]
             ELSE [err |-> NoExc, ret |-> [ret EXCEPT !.read = <<nums.val>>]]
        ELSE IF Contains(line, "write_ops")
        THEN IF nums.err # NoExc THEN [err |-> nums.err, ret |-> ret]
             ELSE [err |-> NoExc, ret |-> [ret EXCEPT !.write = <<nums.val>>]]
        ELSE IF Contains(line, "elapsed")
        THEN IF nums.err # NoExc THEN [err |-> nums.err, ret |-> ret]
             ELSE [err |-> NoExc, ret |-> [ret EXCEPT !.elapsed = <<nums.val[1]>>]]
        ELSE [err |-> NoExc, ret |-> ret]

RECURSIVE rbd_loop(_, _, _)
\* The for loop of parse_rbd_bench from line i on; the first error ends it.
rbd_loop(lines, i, ret) ==
    IF i > Len(lines) THEN [err |-> NoExc, ret |-> ret]
    ELSE LET r == rbd_line(ret, lines[i])
         IN  IF r.err # NoExc THEN [err |-> r.err, ret |-> EmptyRecord]
             ELSE rbd_loop(lines, i + 1, r.ret)

\* parse_rbd_bench(msg)
parse_rbd_bench(msg) == rbd_loop(msg.lines, 1, EmptyRecord)

\* parse_rados_bench(msg)
parse_rados_bench(msg) ==
    [err |-> Raise("NotImplementedError", "Not implemented yet"), ret |-> EmptyRecord]

\* get_parser with a case-insensitive comparison of the first name.
get_parser_nocase(name) ==
    IF name \in {"fio", "FIO"} THEN "parse_fio"
    ELSE IF name = "rbd-bench" THEN "parse_rbd_bench"
    ELSE IF name = "rados-bench" THEN "parse_rados_bench"
    ELSE "None"

\* get_parser(name): the closure returned, "None" when the chain falls through.
get_parser(name) ==
    IF name = "fio" THEN "parse_fio"
    ELSE IF name = "rbd-bench" THEN "parse_rbd_bench"
    ELSE IF name = "rados-bench" THEN "parse_rados_bench"
    ELSE "None"

\* parser(msg) for the closure get_parser returned.
CallParser(parser, msg) ==
    CASE parser = "parse_fio" -> parse_fio(msg)
      [] parser = "parse_rbd_bench" -> parse_rbd_bench(msg)
      [] parser = "parse_rados_bench" -> parse_rados_bench(msg)

\* ------------------------------------------------------------- reporter
\* One print() call: what was printed, as a tag, a string and the numbers.
Line(tag, text, nums) == [tag |-> tag, text |-> text, nums |-> nums]

\* f'{n/e:.2f}' in hundredths, for n >= 0 and e > 0 (round to nearest).
Fmt2(n, e) == (200 * n + e) \div (2 * e)

\* print_results(parsed_data, name): the lines printed and the error raised.
print_results(parsed_data, name) ==
    LET head == <<Line("ran benchmark: ", name, <<>>)>>
    IN  IF ~Has(parsed_data, "read") THEN [err |-> Raise("KeyError", "read"), out |-> head]
        ELSE IF ~Has(parsed_data, "write") THEN [err |-> Raise("KeyError", "write"), out |-> head]
        ELSE IF ~Has(parsed_data, "elapsed") THEN [err |-> Raise("KeyError", "elapsed"), out |-> head]
        ELSE LET read_ops == Get(parsed_data, "read")
                 write_ops == Get(parsed_data, "write")
                 num_ops == read_ops[1] + write_ops[1]
                 elapsed == Get(parsed_data, "elapsed")
             IN  IF elapsed = 0
                 THEN [err |-> Raise("ZeroDivisionError", "division by zero"), out |-> head]
                 ELSE [err |-> NoExc,
                       out |-> head \o
                          <<Line("elapsed time:", "",
                                 <<elapsed, Fmt2(num_ops, elapsed), read_ops[3] + write_ops[3]>>),
                            Line("read ops:", "", <<read_ops[1], read_ops[2], read_ops[3]>>),
                            Line("write ops:", "", <<write_ops[1], write_ops[2], write_ops[3]>>)>>]

\* ------------------------------------------------- action parameters
\* A value of the action_args dict: the string given on the command line,
\* or the number it was coerced to.
StrVal(s) == [typ |-> "str", s |-> s, n |-> 0]

NumVal(typ, n) == [typ |-> typ, s |-> "", n |-> n]

NoArgs == [size |-> <<>>, ratio |-> <<>>]

ParamKeys == <<"size", "ratio">>

\* dict(zip(*(iter(args[1:]),) * 2)): consecutive (key, value) pairs, a
\* trailing key without a value dropped.
RECURSIVE PairUp(_, _, _)
PairUp(args, i, acc) ==
    IF i + 1 > Len(args) THEN acc
    ELSE PairUp(args, i + 2, [acc EXCEPT ![args[i]] = <<StrVal(args[i + 1])>>])

\* What `juju actions woodpecker --schema` can answer for the action: the
\* command fails, or the declared type of each parameter it knows.
SchemaFailed == [ok |-> FALSE, props |-> [size |-> <<>>, ratio |-> <<>>]]

Schemas ==
    { SchemaFailed,
      [ok |-> TRUE, props |-> [size |-> <<"integer">>, ratio |-> <<"number">>]],
      [ok |-> TRUE, props |-> [size |-> <<"number">>, ratio |-> <<>>]] }

\* The for loop of convert_action_params from the i-th key on.
RECURSIVE Coerce(_, _, _)
Coerce(props, params, i) ==
    IF i > Len(ParamKeys) THEN [err |-> NoExc, params |-> params]
    ELSE LET key == ParamKeys[i]
         IN  IF ~Has(params, key) \/ ~Has(props, key) THEN Coerce(props, params, i + 1)
             ELSE LET typ == Get(props, key)
                      val == Get(params, key).s
                  IN  IF typ = "integer"
                      THEN IF IntOf(val).err # NoExc
                           THEN [err |-> IntOf(val).err, params |-> params]
                           ELSE Coerce(props, [params EXCEPT ![key] = <<NumVal("int", IntOf(val).val)>>], i + 1)
                      ELSE IF typ = "number"
                      THEN IF FloatOf(val).err # NoExc
                           THEN [err |-> FloatOf(val).err, params |-> params]
                           ELSE Coerce(props, [params EXCEPT ![key] = <<NumVal("float", FloatOf(val).val)>>], i + 1)
                      ELSE Coerce(props, params, i + 1)

\* convert_action_params(action, params) against the schema answered: the
\* params as left by the loop and the warning printed, if any.
convert_action_params(schema, params) ==
    IF ~schema.ok
    THEN [params |-> params,
          out |-> <<Line("Failed to update action parameters ", "CalledProcessError", <<>>)>>]
    ELSE LET r == Coerce(schema.props, params, 1)
         IN  [params |-> r.params,
              out |-> IF r.err = NoExc THEN <<>>
                      ELSE <<Line("Failed to update action parameters ", r.err.type, <<>>)>>]

\* ---------------------------------------------------------- action results
NoPayload == TextPayload(<< <<>> >>)

NoResult == [status |-> "", message |-> "", payload |-> NoPayload]

\* The payloads the woodpecker unit returns for an action: fio reports are
\* structured (or not a literal at all), rbd-bench reports are text.
Payloads(action_name) ==
    CASE action_name = "fio" -> {StructPayload(t) : t \in Tabs} \cup {NoPayload}
      [] action_name = "rbd-bench" -> {TextPayload(l) : l \in TextReports}
      [] OTHER -> {NoPayload, TextPayload(<< <<"rbd", "7">> >>), StructPayload(NoTab)}

\* The result objects model.run_action can return.
Results(action_name) ==
    {[status |-> "completed", message |-> "", payload |-> p] : p \in Payloads(action_name)}
    \cup {[status |-> st, message |-> "action failed", payload |-> NoPayload] :
             st \in {"failed", "error"}}

\* ------------------------------------------------------------ the process
Prog == "main.py"

Names == {"fio", "rbd-bench", "rados-bench", "FIO", "rbd", ""}

ArgTails == {<<>>, <<"size", "7", "ratio">>, <<"size", "2.5", "ratio", "7">>}

\* sys.argv at start.
Argvs ==
    {<<Prog>>, <<Prog, "deploy">>, <<Prog, "deploy", "-W", "wp.charm">>,
     <<Prog, "bogus">>, <<Prog, "run">>}
    \cup {<<Prog, "run", n>> \o t : n \in Names, t \in ArgTails}

VARIABLES argv, pc, stdout, exc, caught, parser, action_args, result, rv, calls

vars == <<argv, pc, stdout, exc, caught, parser, action_args, result, rv, calls>>

Init ==
    /\ argv \in Argvs
    /\ pc = "main"
    /\ stdout = <<>>
    /\ exc = NoExc
    /\ caught = NoExc
    /\ parser = "None"
    /\ action_args = NoArgs
    /\ result = NoResult
    /\ rv = EmptyRecord
    /\ calls = {}

\* argv[2:] of main, the args of run_benchmark.
Args == SubSeq(argv, 3, Len(argv))

\* parse_args(args) returns only when the required -W option has a value;
\* argparse exits the process otherwise.
ParseArgsOk(args) == \E i \in 1..Len(args) - 1 : args[i] = "-W"

Emit(line) == stdout' = Append(stdout, line)

Call(fn) == calls' = calls \cup {fn}

\* main(): usage when there is no subcommand, else dispatch on it.
Main ==
    /\ pc = "main"
    /\ IF Len(argv) < 2
       THEN /\ Emit(Line("usage: %s deploy|run ...args", argv[1], <<>>))
            /\ pc' = "done"
            /\ UNCHANGED <<exc, calls>>
       ELSE IF argv[2] = "deploy"
       THEN IF ParseArgsOk(Args)
            THEN /\ pc' = "deploy"
                 /\ Call("deploy")
                 /\ UNCHANGED <<stdout, exc>>
            ELSE /\ pc' = "done"
                 /\ exc' = Raise("SystemExit", "2")
                 /\ UNCHANGED <<stdout, calls>>
       ELSE IF argv[2] = "run"
       THEN /\ pc' = "run_benchmark"
            /\ Call("run_benchmark")
            /\ UNCHANGED <<stdout, exc>>
       ELSE /\ pc' = "done"
            /\ UNCHANGED <<stdout, exc, calls>>
    /\ UNCHANGED <<argv, caught, parser, action_args, result, rv>>

\* deploy(args): the bundle is built and handed to the orchestrator, which
\* deploys it or fails.
Deploy ==
    /\ pc = "deploy"
    /\ Emit(Line("Deploying to model: ", "", <<>>))
    /\ \E ok \in BOOLEAN : exc' = IF ok THEN NoExc ELSE Raise("Exception", "deploy")
    /\ pc' = "cleanup"
    /\ UNCHANGED <<argv, caught, parser, action_args, result, rv, calls>>

\* run_benchmark as if the invalid-benchmark branch did not return.
RunBenchmarkNoReturn ==
    /\ pc = "run_benchmark"
    /\ IF Len(Args) = 0
       THEN /\ exc' = Raise("IndexError", "list index out of range")
            /\ pc' = "cleanup"
            /\ UNCHANGED <<stdout, parser, calls>>
       ELSE /\ parser' = get_parser(Args[1])
            /\ Call("get_parser")
            /\ stdout' = IF parser' = "None"
                         THEN Append(stdout, Line("Invalid benchmark specified: ", Args[1], <<>>))
                         ELSE stdout
            /\ pc' = "convert"
            /\ UNCHANGED exc
    /\ UNCHANGED <<argv, caught, action_args, result, rv>>

\* run_benchmark, up to the dispatch: action_name = args[0], the parser is
\* looked up, and an unrecognized name ends the run.
RunBenchmark ==
    /\ pc = "run_benchmark"
    /\ IF Len(Args) = 0
       THEN /\ exc' = Raise("IndexError", "list index out of range")
            /\ pc' = "cleanup"
            /\ UNCHANGED <<stdout, parser, calls>>
       ELSE /\ parser' = get_parser(Args[1])
            /\ Call("get_parser")
            /\ IF parser' = "None"
               THEN /\ Emit(Line("Invalid benchmark specified: ", Args[1], <<>>))
                    /\ pc' = "cleanup"
               ELSE /\ pc' = "convert"
                    /\ UNCHANGED stdout
            /\ UNCHANGED exc
    /\ UNCHANGED <<argv, caught, action_args, result, rv>>

\* run_benchmark: the key/value arguments become a dict and are coerced.
ConvertActionParams ==
    /\ pc = "convert"
    /\ \E schema \in Schemas :
          LET r == convert_action_params(schema, PairUp(Args, 2, NoArgs))
          IN  /\ action_args' = r.params
              /\ stdout' = stdout \o r.out
    /\ Call("convert_action_params")
    /\ pc' = "run_action"
    /\ UNCHANGED <<argv, exc, caught, parser, result, rv>>

\* run_benchmark: model.run_action on woodpecker/0 returns a result.
RunAction ==
    /\ pc = "run_action"
    /\ result' \in Results(Args[1])
    /\ Call("run_action")
    /\ pc' = "check_status"
    /\ UNCHANGED <<argv, stdout, exc, caught, parser, action_args, rv>>

\* run_benchmark as if the status test were missing.
CheckStatusIgnored ==
    /\ pc = "check_status"
    /\ pc' = "parse"
    /\ UNCHANGED <<argv, stdout, exc, caught, parser, action_args, result, rv, calls>>

\* run_benchmark: a result that is not 'completed' ends the run.
CheckStatus ==
    /\ pc = "check_status"
    /\ IF result.status # "completed"
       THEN /\ Emit(Line("Benchmark failed: ", result.message, <<>>))
            /\ pc' = "cleanup"
       ELSE /\ pc' = "parse"
            /\ UNCHANGED stdout
    /\ UNCHANGED <<argv, exc, caught, parser, action_args, result, rv, calls>>

\* run_benchmark as if a parser error were replaced by an empty record.
ParseSwallowed ==
    /\ pc = "parse"
    /\ Call("parser")
    /\ rv' = CallParser(parser, result.payload).ret
    /\ pc' = "print_results"
    /\ UNCHANGED <<argv, stdout, exc, caught, parser, action_args, result>>

\* run_benchmark: rv = parser(result.data['results']['test-results']),
\* outside any try block.
Parse ==
    /\ pc = "parse"
    /\ Call("parser")
    /\ LET r == CallParser(parser, result.payload)
       IN  IF r.err # NoExc
           THEN /\ exc' = r.err
                /\ pc' = "cleanup"
                /\ UNCHANGED rv
           ELSE /\ rv' = r.ret
                /\ pc' = "print_results"
                /\ UNCHANGED exc
    /\ UNCHANGED <<argv, stdout, caught, parser, action_args, result>>

\* run_benchmark as if print_results were called outside the try block.
PrintResultsNoTry ==
    /\ pc = "print_results"
    /\ Call("print_results")
    /\ LET r == print_results(rv, Args[1])
       IN  /\ stdout' = stdout \o r.out
           /\ exc' = r.err
    /\ pc' = "cleanup"
    /\ UNCHANGED <<argv, caught, parser, action_args, result, rv>>

\* run_benchmark: print_results(rv, action_name) inside try / except
\* Exception, which prints the cause.
PrintResults ==
    /\ pc = "print_results"
    /\ Call("print_results")
    /\ LET r == print_results(rv, Args[1])
       IN  /\ stdout' = IF r.err = NoExc THEN stdout \o r.out
                        ELSE stdout \o r.out \o
                             <<Line("Failed to print results: ", r.err.arg, <<>>)>>
           /\ caught' = r.err
    /\ pc' = "cleanup"
    /\ UNCHANGED <<argv, exc, parser, action_args, result, rv>>

\* zaza_cleanup: the finally block runs however fn ended, and an exception
\* of fn goes on propagating after it.
Cleanup ==
    /\ pc = "cleanup"
    /\ Call("zaza_cleanup")
    /\ pc' = "done"
    /\ UNCHANGED <<argv, stdout, exc, caught, parser, action_args, result, rv>>

Next ==
    \/ Main
    \/ Deploy
    \/ RunBenchmark
    \/ ConvertActionParams
    \/ RunAction
    \/ CheckStatus
    \/ Parse
    \/ PrintResults
    \/ Cleanup

Spec == Init /\ [][Next]_vars

\* =============================================================== claims
Recognized == {"fio", "rbd-bench", "rados-bench"}

Printed(tag) == \E i \in 1..Len(stdout) : stdout[i].tag = tag

LastPrinted == stdout[Len(stdout)]

Returned == pc \in {"cleanup", "done"}

\* The parser was called on the payload of a completed action and returned.
ParserReturned == "parser" \in calls /\ exc = NoExc

ReportLines == result.payload.lines

\* C1: get_parser returns the falsy no-parser value, raising nothing, exactly
\* for the names other than 'fio', 'rbd-bench' and 'rados-bench', and for each
\* of these three its own parser.
C1_DispatcherByName ==
    "get_parser" \in calls =>
        /\ (parser = "None") <=> (Args[1] \notin Recognized)
        /\ Args[1] = "fio" => parser = "parse_fio"
        /\ Args[1] = "rbd-bench" => parser = "parse_rbd_bench"
        /\ Args[1] = "rados-bench" => parser = "parse_rados_bench"
        /\ parser = "None" => exc = NoExc

C1_Witness ==
    "get_parser" \in calls /\ Args[1] = "FIO" /\ parser = "None" /\ pc = "done"

\* C2: when the action's status is not 'completed', run_benchmark prints the
\* result's failure message and returns normally; the parser and the
\* reporter are never called.
C2_FailedActionStops ==
    ("run_action" \in calls /\ result.status # "completed") =>
        /\ "parser" \notin calls
        /\ "print_results" \notin calls
        /\ exc = NoExc
        /\ pc \in {"check_status", "cleanup", "done"}
        /\ Returned => LastPrinted = Line("Benchmark failed: ", result.message, <<>>)

C2_Witness ==
    "run_action" \in calls /\ result.status = "failed" /\ pc = "done"

\* C3: when the benchmark name is not recognized, run_benchmark prints the
\* invalid-benchmark message and returns without raising; the coercion,
\* the action, the parser and the reporter are never reached.
C3_InvalidBenchmarkAborts ==
    ("get_parser" \in calls /\ Args[1] \notin Recognized) =>
        /\ stdout = <<Line("Invalid benchmark specified: ", Args[1], <<>>)>>
        /\ exc = NoExc
        /\ Returned
        /\ calls \cap {"convert_action_params", "run_action", "parser", "print_results"} = {}

C3_Witness ==
    "get_parser" \in calls /\ Args[1] = "rbd" /\ Len(Args) > 1 /\ pc = "done"

\* C4: when print_results is called on a record without 'write' (or without
\* 'read'), it raises and has printed no line of the summary, not even the
\* benchmark-name line.
C4_NoPartialOutput ==
    ("print_results" \in calls /\ (~Has(rv, "read") \/ ~Has(rv, "write"))) =>
        /\ caught.type = "KeyError"
        /\ ~Printed("ran benchmark: ")

\* C5: every error print_results raises is caught in run_benchmark: the
\* failed-to-print diagnostic with the cause is printed and run_benchmark
\* returns normally.
C5_ReporterErrorCaught ==
    "print_results" \in calls =>
        /\ exc = NoExc
        /\ Returned
        /\ ~Has(rv, "read") => LastPrinted = Line("Failed to print results: ", "read", <<>>)
        /\ (Has(rv, "read") /\ ~Has(rv, "write")) =>
              LastPrinted = Line("Failed to print results: ", "write", <<>>)
        /\ (Has(rv, "read") /\ Has(rv, "write") /\ ~Has(rv, "elapsed")) =>
              LastPrinted = Line("Failed to print results: ", "elapsed", <<>>)
        /\ (Has(rv, "read") /\ Has(rv, "write") /\ rv.elapsed = <<0>>) =>
              LastPrinted = Line("Failed to print results: ", "division by zero", <<>>)

C5_Witness ==
    /\ "print_results" \in calls
    /\ parser = "parse_fio"
    /\ Has(rv, "read")
    /\ ~Has(rv, "write")
    /\ pc = "done"

\* A line whose 'elapsed' marker the if / elif chain reaches.
ElapsedLine(line) ==
    Contains(line, "elapsed") /\ ~Contains(line, "read_ops") /\ ~Contains(line, "write_ops")

\* C6 as claimed: every record a parser returns has 'elapsed', for the fio
\* parser and for the rbd-bench parser on every input.
C6_ElapsedAlwaysPresent == ParserReturned => Has(rv, "elapsed")

\* C6 as amended: every record the fio parser returns has 'elapsed'; a
\* record the rbd-bench parser returns has 'elapsed' exactly when some line
\* of the report contains 'elapsed' and neither 'read_ops' nor 'write_ops'.
C6_ElapsedPresentWhenReported ==
    ParserReturned =>
        /\ parser = "parse_fio" => Has(rv, "elapsed")
        /\ parser = "parse_rbd_bench" =>
              (Has(rv, "elapsed") <=>
                  \E i \in 1..Len(ReportLines) : ElapsedLine(ReportLines[i]))

C6_Witness ==
    /\ ParserReturned
    /\ parser = "parse_rbd_bench"
    /\ ~Has(rv, "elapsed")
    /\ \E i \in 1..Len(ReportLines) : Contains(ReportLines[i], "elapsed")
    /\ pc = "done"

\* A line the numeric line extractor accepts: at least 6 tokens, token 1 an
\* integer, tokens 3 and 5 numbers.
WellFormed(line) ==
    /\ Len(line) >= 6
    /\ IntOf(line[2]).err = NoExc
    /\ FloatOf(line[4]).err = NoExc
    /\ FloatOf(line[6]).err = NoExc

Marked(line) == \E m \in Markers : Contains(line, m)

\* The structural errors of a report for the parser selected.
StructuralError ==
    CASE parser = "parse_fio" ->
            \/ result.payload.kind # "struct"
            \/ ~Has(result.payload.tab, "jobs")
            \/ Len(Get(result.payload.tab, "jobs")) = 0
      [] parser = "parse_rbd_bench" ->
            \E i \in 1..Len(ReportLines) :
                Marked(ReportLines[i]) /\ ~WellFormed(ReportLines[i])
      [] parser = "parse_rados_bench" -> TRUE
      [] OTHER -> FALSE

\* C7: an error the selected parser raises on the output of a completed
\* action propagates out of run_benchmark: the reporter is not called and
\* no failed-to-print diagnostic is printed.  The rados-bench parser raises
\* the not-implemented error on every input.
C7_ParserErrorPropagates ==
    ("parser" \in calls /\ StructuralError) =>
        /\ exc # NoExc
        /\ exc.type \in {"SyntaxError", "KeyError", "IndexError", "ValueError",
                         "NotImplementedError"}
        /\ parser = "parse_rados_bench" => exc.type = "NotImplementedError"
        /\ "print_results" \notin calls
        /\ ~Printed("Failed to print results: ")
        /\ Returned

C7_Witness ==
    /\ "parser" \in calls
    /\ parser = "parse_rados_bench"
    /\ result.payload = NoPayload
    /\ exc.type = "NotImplementedError"
    /\ pc = "done"

\* C8: with a subcommand that is neither 'deploy' nor 'run', main prints the
\* usage message and returns normally without running deploy or
\* run_benchmark.
C8_InvalidSubcommandUsage ==
    (pc = "done" /\ Len(argv) >= 2 /\ argv[2] \notin {"deploy", "run"}) =>
        /\ Printed("usage: %s deploy|run ...args")
        /\ exc = NoExc
        /\ calls \cap {"deploy", "run_benchmark"} = {}

\* The field a marker sets from the last of the lines satisfying P.
LastOf(P(_), field(_)) ==
    LET S == {i \in 1..Len(ReportLines) : P(ReportLines[i])}
    IN  IF S = {} THEN <<>>
        ELSE <<field(ReportLines[CHOOSE i \in S : \A j \in S : j <= i])>>

Triple(line) == extract_nums(line).val

First(line) == extract_nums(line).val[1]

HasRead(line) == Contains(line, "read_ops")

HasWrite(line) == Contains(line, "write_ops")

HasElapsed(line) == Contains(line, "elapsed")

WriteLine(line) == Contains(line, "write_ops") /\ ~Contains(line, "read_ops")

\* The rbd-bench parser was called on a report whose marker lines are all
\* well-formed.
RbdWellFormedRun ==
    /\ "parser" \in calls
    /\ parser = "parse_rbd_bench"
    /\ \A i \in 1..Len(ReportLines) : Marked(ReportLines[i]) => WellFormed(ReportLines[i])

\* C9 as claimed: on well-formed lines each field is set by the last line
\* containing its marker: read by 'read_ops', write by 'write_ops', elapsed
\* (first field only) by 'elapsed'; absent when no line contains the marker.
C9_LastLinePerMarker ==
    RbdWellFormedRun =>
        /\ exc = NoExc
        /\ rv.read = LastOf(HasRead, Triple)
        /\ rv.write = LastOf(HasWrite, Triple)
        /\ rv.elapsed = LastOf(HasElapsed, First)

\* C9 as amended: a line counts for the first marker it contains in the
\* order read_ops, write_ops, elapsed: read is set by the last line
\* containing 'read_ops', write by the last line containing 'write_ops' but
\* not 'read_ops', elapsed by the last line containing 'elapsed' but neither
\* of the other two; a field is absent when there is no such line.
C9_LastLinePerFirstMarker ==
    RbdWellFormedRun =>
        /\ exc = NoExc
        /\ rv.read = LastOf(HasRead, Triple)
        /\ rv.write = LastOf(WriteLine, Triple)
        /\ rv.elapsed = LastOf(ElapsedLine, First)

C9_Witness ==
    /\ RbdWellFormedRun
    /\ Len(ReportLines) = 2
    /\ HasRead(ReportLines[1])
    /\ HasRead(ReportLines[2])
    /\ Triple(ReportLines[1]) # Triple(ReportLines[2])
    /\ rv.read = <<Triple(ReportLines[2])>>
    /\ pc = "done"

====
